---- MODULE Spec2Model ----
(***************************************************************************)
(* A model of the Cursor usage monitor (src/cursor_monitor.py): the fetch  *)
(* with its previous-month fallback, the normalisation of a snapshot into  *)
(* a total, the comparison with the stored baseline, the notification      *)
(* fan-out, the state file, and the single-shot / continuous run modes.    *)
(*                                                                         *)
(* Conventions.  A Python value that may be absent (a missing dict key,    *)
(* None) is an option: <<>> when absent, <<v>> when present.  A poll       *)
(* (check_usage) is one atomic action; everything the environment decides  *)
(* during a poll (the date, the provider's answers, whether a channel or   *)
(* the file write fails) is an input of that action.                       *)
(***************************************************************************)
EXTENDS Integers, Sequences, FiniteSets, TLC

(* ------------------------------ bounds -------------------------------- *)

\* Totals and item amounts range over 0..MaxCents.
MaxCents == 3
\* The notification threshold ranges over 1..MaxThreshold.
MaxThreshold == 2
\* Polls performed in one behaviour (the clock stops there).
MaxPolls == 3

(* ------------------------------ options ------------------------------- *)

None == <<>>

Some(v) == <<v>>

\* dict.get(key, default) on an optional field.
Get(opt, default) == IF opt = None THEN default ELSE opt[1]

\* Python truthiness of an optional list: present and non-empty.
Truthy(optList) == optList /= None /\ optList[1] /= <<>>

(* --------------------------- provider data ----------------------------- *)

\* The amounts of the provider's JSON are numbers, not always whole: an
\* amount is counted here in half cents (3 is 1.5 cents).  Cents(n) is the
\* amount of n whole cents, int(amount) Python's int() of the amount.
Cents(n) == 2 * n

int(amount) == amount \div 2

IsWhole(amount) == amount % 2 = 0

\* A billed line item: {"cents": n}, the key possibly missing.
Item == [cents : {None} \cup {Some(a) : a \in 0..Cents(MaxCents)}]

\* A usage event: {"priceCents": p, "timestamp": ms}, either key possibly
\* missing.
Prices == {0, 1, Cents(1)}

Timestamps == {1000}

Event == [priceCents : {None} \cup {Some(p) : p \in Prices},
          timestamp  : {None} \cup {Some(t) : t \in Timestamps}]

\* The "items" and "usageEvents" keys of a body: absent, or a list.
ItemLists == {None, Some(<<>>)} \cup {Some(<<i>>) : i \in Item}

EventLists == {None, Some(<<>>)} \cup {Some(<<e>>) : e \in Event}

\* A UsageSnapshot: the parsed JSON body of one answer.
Snapshot == [items : ItemLists, usageEvents : EventLists]

\* What the provider answers to one request: no answer at all (a transport
\* failure), or a status code and a body that is valid JSON or not.
StatusCodes == {200, 401, 500}

NoData == [items |-> None, usageEvents |-> None]

Transport == [arrived |-> FALSE, status_code |-> 0, json |-> FALSE, data |-> NoData]

Http(code) == [arrived |-> TRUE, status_code |-> code, json |-> FALSE, data |-> NoData]

Ok(data) == [arrived |-> TRUE, status_code |-> 200, json |-> TRUE, data |-> data]

Failures == {Transport} \cup {Http(c) : c \in StatusCodes}

Responses == Failures \cup {Ok(d) : d \in Snapshot}

\* The dates a poll may run at: datetime.now(), month and year.
Dates == [month : 1..12, year : {2025, 2026}]

(* ------------------------- get_current_usage -------------------------- *)

\* Mutant: the previous month without the turn of the year.
months_to_try_no_rollover(now) ==
  << [month |-> now.month, year |-> now.year],
     [month |-> now.month - 1, year |-> now.year] >>

\* The candidate periods, in the order they are tried.
months_to_try(now) ==
  << [month |-> now.month, year |-> now.year],
     [month |-> IF now.month > 1 THEN now.month - 1 ELSE 12,
      year  |-> IF now.month > 1 THEN now.year ELSE now.year - 1] >>

\* "data.get('items') or (data.get('usageEvents') and len(...) > 0)"
HasUsage(data) == Truthy(data.items) \/ Truthy(data.usageEvents)

\* The snapshot returned when no candidate period has usage.
EmptySnapshot == [items |-> Some(<<>>), usageEvents |-> Some(<<>>)]

\* The exceptions get_current_usage raises, by their message.
AuthError == "Authentication failed"

RequestError == "API request failed"

NetworkError == "Network error"

ParseError == "Invalid JSON response"

FetchErrors == {AuthError, RequestError, NetworkError, ParseError}

NoError == ""

\* Mutant: status 401 falls through to the generic request error.
Classify_401_generic(response) ==
  IF ~response.arrived THEN NetworkError
  ELSE IF response.status_code = 200
       THEN IF response.json THEN NoError ELSE ParseError
  ELSE RequestError

\* Lines 97-116: the exception one answer makes get_current_usage raise
\* (NoError: none, the body is looked at).
Classify(response) ==
  IF ~response.arrived THEN NetworkError
  ELSE IF response.status_code = 200
       THEN IF response.json THEN NoError ELSE ParseError
  ELSE IF response.status_code = 401 THEN AuthError
  ELSE RequestError

\* The loop over the candidate periods from the i-th on; answers[k] is the
\* provider's answer to the k-th request of the poll, requests the payloads
\* sent so far.  The result: the exception raised (NoError: none), the
\* snapshot returned, the requests issued.
RECURSIVE TryMonths(_, _, _, _)
TryMonths(months, answers, i, requests) ==
  IF i > Len(months)
  THEN [error |-> NoError, data |-> EmptySnapshot, requests |-> requests]
  ELSE LET response == answers[i]
           sent == Append(requests, months[i])
       IN  IF Classify(response) /= NoError
           THEN [error |-> Classify(response), data |-> NoData, requests |-> sent]
           ELSE IF HasUsage(response.data)
           THEN [error |-> NoError, data |-> response.data, requests |-> sent]
           ELSE TryMonths(months, answers, i + 1, sent)

get_current_usage(now, answers) ==
  TryMonths(months_to_try(now), answers, 1, <<>>)

(* ------------------------ configuration, state ------------------------ *)

\* The configuration artifact: the threshold and the notification methods
\* (webhook_url: whether the URL is a non-empty string).
Configs == [notification_threshold_cents : 1..MaxThreshold,
            console : BOOLEAN, desktop : BOOLEAN,
            webhook : BOOLEAN, webhook_url : BOOLEAN]

\* load_state: the record of the state file, or the default when there is
\* no file.  A file is an option of the record it holds.
load_state(state_file) ==
  IF state_file /= None THEN state_file[1]
  ELSE [last_total_cents |-> 0, last_check |-> None]

\* save_state: the file after json.dump of the state.
save_state(st) == Some(st)

\* The file as open(..., 'w') leaves it before json.dump has written: no
\* JSON document (-1: no value), json.load raises on it.
EmptyFile == [last_total_cents |-> -1, last_check |-> None]

Loads(state_file) == state_file /= Some(EmptyFile)

(* -------------------------- send_notification ------------------------- *)

\* How the channels fare when they are attempted: the console's print, the
\* desktop's import and notify, the webhook's post.
ConsoleOutcomes == {"ok", "Exception"}

DesktopOutcomes == {"ok", "ImportError", "Exception"}

WebhookOutcomes == {"ok", "Exception"}

ChannelOutcomes ==
  [console : ConsoleOutcomes, desktop : DesktopOutcomes, webhook : WebhookOutcomes]

Attempt(channel, outcome) == [channel |-> channel, outcome |-> outcome]

\* The channels attempted, in order, each with its outcome; raised: whether
\* an exception leaves send_notification.  The print of the console channel
\* is in no try: its exception ends the call; those of the desktop and of
\* the webhook channel are caught and printed.
send_notification(config, outcomes) ==
  LET console == IF config.console
                 THEN <<Attempt("console", outcomes.console)>> ELSE <<>>
      desktop == IF config.desktop
                 THEN <<Attempt("desktop", outcomes.desktop)>> ELSE <<>>
      webhook == IF config.webhook /\ config.webhook_url
                 THEN <<Attempt("webhook", outcomes.webhook)>> ELSE <<>>
  IN  IF config.console /\ outcomes.console /= "ok"
      THEN [attempts |-> console, raised |-> TRUE]
      ELSE [attempts |-> console \o desktop \o webhook, raised |-> FALSE]

(* ----------------------------- check_usage ---------------------------- *)

KeyError == "KeyError"

WriteError == "OSError"

RECURSIVE SumPrices(_)
SumPrices(events) ==
  IF events = <<>> THEN 0
  ELSE Get(Head(events).priceCents, 0) + SumPrices(Tail(events))

\* Mutant: the events are looked at before the items.
Normalize_events_first(usage_data) ==
  IF Truthy(usage_data.usageEvents)
  THEN [error |-> NoError, total |-> int(SumPrices(usage_data.usageEvents[1]))]
  ELSE IF Truthy(usage_data.items)
  THEN LET first == usage_data.items[1][1]
       IN  IF first.cents = None
           THEN [error |-> KeyError, total |-> 0]
           ELSE [error |-> NoError, total |-> int(first.cents[1])]
  ELSE [error |-> NoError, total |-> int(0)]

\* Lines 158-171: the total of a snapshot in whole cents (line 171:
\* int(total_cents)), or the exception raised on the way.
Normalize(usage_data) ==
  IF Truthy(usage_data.items)
  THEN LET first == usage_data.items[1][1]
       IN  IF first.cents = None
           THEN [error |-> KeyError, total |-> 0]
           ELSE [error |-> NoError, total |-> int(first.cents[1])]
  ELSE IF Truthy(usage_data.usageEvents)
  THEN [error |-> NoError, total |-> int(SumPrices(usage_data.usageEvents[1]))]
  ELSE [error |-> NoError, total |-> int(0)]

\* "[e for e in usageEvents if e.get('priceCents', 0) > 0]"
RECURSIVE Priced(_)
Priced(events) ==
  IF events = <<>> THEN <<>>
  ELSE IF Get(Head(events).priceCents, 0) > 0
       THEN <<Head(events)>> \o Priced(Tail(events))
       ELSE Priced(Tail(events))

\* "[:3]"
RecentLimit == 3

Take(seq, n) == SubSeq(seq, 1, IF Len(seq) < n THEN Len(seq) ELSE n)

\* Lines 196-200: print the events one by one; event['timestamp'] raises
\* KeyError on an event without the key.
RECURSIVE ShowEvents(_, _)
ShowEvents(events, shown) ==
  IF events = <<>> THEN [error |-> NoError, shown |-> shown]
  ELSE IF Head(events).timestamp = None
       THEN [error |-> KeyError, shown |-> shown]
       ELSE ShowEvents(Tail(events), Append(shown, Head(events)))

\* Lines 194-200.
ShowRecent(usage_data) ==
  IF Truthy(usage_data.usageEvents)
  THEN ShowEvents(Take(Priced(usage_data.usageEvents[1]), RecentLimit), <<>>)
  ELSE [error |-> NoError, shown |-> <<>>]

\* Mutant: save_state writes nothing.
Write_nothing(state_file, st, written) ==
  [error |-> NoError, file |-> state_file]

\* The file after save_state is called: written, or left as it was when
\* open() fails (written = FALSE), which raises.
Write(state_file, st, written) ==
  IF written THEN [error |-> NoError, file |-> save_state(st)]
  ELSE [error |-> WriteError, file |-> state_file]

\* What a poll leaves behind: the state in memory, the file, the exception
\* that ended it (NoError: none), the branch it took, the requests issued,
\* the total computed, the calls of send_notification and the channels
\* attempted, the events printed, the calls of save_state.
Outcome(st, file, error, branch, fetch, cur, calls, attempts, shown, saves) ==
  [state |-> st, file |-> file, error |-> error, branch |-> branch,
   requests |-> fetch.requests, cur |-> cur, dispatches |-> calls,
   attempts |-> attempts, shown |-> shown, saves |-> saves]

\* Mutant: the handler of the exception saves the state.
Caught_saves(st, state_file, error, branch, fetch) ==
  Outcome(st, save_state(st), error, branch, fetch, None, 0, <<>>, <<>>, 1)

\* An exception of the fetch or of the normalisation leaves the try before
\* line 175: nothing has been assigned, sent or saved.
Caught(st, state_file, error, branch, fetch) ==
  Outcome(st, state_file, error, branch, fetch, None, 0, <<>>, <<>>, 0)

\* Mutant: no first-run rule.
Branch_no_first_run(last_cents, current_cents) ==
  IF current_cents > last_cents THEN "increase"
  ELSE IF current_cents = last_cents THEN "same"
  ELSE "decrease"

\* Mutant: a decrease is taken for no change.
Branch_decrease_ignored(last_cents, current_cents) ==
  IF last_cents = 0 /\ current_cents > 0 THEN "baseline"
  ELSE IF current_cents > last_cents THEN "increase"
  ELSE "same"

\* Mutant: an unchanged total takes the branch of a decrease.
Branch_same_as_decrease(last_cents, current_cents) ==
  IF last_cents = 0 /\ current_cents > 0 THEN "baseline"
  ELSE IF current_cents > last_cents THEN "increase"
  ELSE "decrease"

\* Lines 178, 183, 208, 210: the branch of the comparison.
Branch(last_cents, current_cents) ==
  IF last_cents = 0 /\ current_cents > 0 THEN "baseline"
  ELSE IF current_cents > last_cents THEN "increase"
  ELSE IF current_cents = last_cents THEN "same"
  ELSE "decrease"

\* Mutant: an increase of one cent less than the threshold notifies.
MeetsThreshold_one_less(increase_cents, config) ==
  increase_cents >= config.notification_threshold_cents - 1

\* Mutant: every increase notifies.
MeetsThreshold_any(increase_cents, config) == increase_cents > 0

\* Line 189.
MeetsThreshold(increase_cents, config) ==
  increase_cents >= config.notification_threshold_cents

\* Mutant: the update stands inside the if of line 189.
BelowThreshold_keeps(updated, kept) == kept

\* Lines 204-206 stand after the if of line 189, not inside it: the poll of
\* an increase below the threshold ends updated, not with the state
\* kept.
BelowThreshold(updated, kept) == updated

\* Lines 156-213, the body of the try: of a poll at time clock (the
\* date now), from state st and file state_file, with the provider's
\* answers, the channels' outcomes and whether the file can be written.
CheckUsageBody(config, st, state_file, now, clock, answers, outcomes, written) ==
  LET fetch == get_current_usage(now, answers)
      norm == Normalize(fetch.data)
      current_cents == norm.total
      last_cents == st.last_total_cents
      checked == [st EXCEPT !.last_check = Some(clock)]
      updated == [checked EXCEPT !.last_total_cents = current_cents]
      saved == Write(state_file, updated, written)
      increase_cents == current_cents - last_cents
      sent == send_notification(config, outcomes)
      recent == ShowRecent(fetch.data)
      branch == Branch(last_cents, current_cents)
      Saved(calls, attempts, shown) ==
        Outcome(updated, saved.file, saved.error, branch, fetch,
                Some(current_cents), calls, attempts, shown, 1)
  IN  IF fetch.error /= NoError
      THEN Caught(st, state_file, fetch.error, "fetch", fetch)
      ELSE IF norm.error /= NoError
      THEN Caught(st, state_file, norm.error, "normalize", fetch)
      ELSE IF branch = "baseline"
      THEN Saved(0, <<>>, <<>>)
      ELSE IF branch = "increase"
      THEN IF MeetsThreshold(increase_cents, config)
           THEN IF sent.raised
                THEN Outcome(checked, state_file, "Exception", branch, fetch,
                             Some(current_cents), 1, sent.attempts, <<>>, 0)
                ELSE IF recent.error /= NoError
                THEN Outcome(checked, state_file, recent.error, branch, fetch,
                             Some(current_cents), 1, sent.attempts, recent.shown, 0)
                ELSE Saved(1, sent.attempts, recent.shown)
           ELSE BelowThreshold(Saved(0, <<>>, <<>>),
                               Outcome(checked, state_file, NoError, branch, fetch,
                                       Some(current_cents), 0, <<>>, <<>>, 0))
      ELSE IF branch = "same"
      THEN Outcome(checked, state_file, NoError, branch, fetch,
                   Some(current_cents), 0, <<>>, <<>>, 0)
      ELSE Saved(0, <<>>, <<>>)

\* Mutant: no try/except: the exception of the body leaves check_usage.
check_usage_uncaught(config, st, state_file, now, clock, answers, outcomes, written) ==
  LET body == CheckUsageBody(config, st, state_file, now, clock, answers,
                             outcomes, written)
  IN  [body |-> body, raised |-> body.error]

\* Lines 155, 215-216: the try/except around the body: the exception is
\* printed and goes no further (raised: what leaves check_usage).
check_usage(config, st, state_file, now, clock, answers, outcomes, written) ==
  [body |-> CheckUsageBody(config, st, state_file, now, clock, answers,
                           outcomes, written),
   raised |-> NoError]

\* Mutant: --once is ignored, the loop runs in both modes.
AfterRunOnce_loops(run_mode, raised) ==
  IF raised /= NoError THEN "crashed" ELSE "sleep"

\* Lines 231-233 and 238-243: where the process is after run_once, left by
\* the exception raised (NoError: it returned): the loop sleeps, --once ends.
AfterRunOnce(run_mode, raised) ==
  IF raised /= NoError THEN "crashed"
  ELSE IF run_mode = "once" THEN "exit" ELSE "sleep"

(* ----------------------------- the process ---------------------------- *)

VARIABLES
  config,      \* the configuration, loaded once at startup
  state,       \* self.state: [last_total_cents, last_check]
  state_file,  \* cursor_monitor_state.json: None, or Some(record)
  clock,       \* the time, one tick per poll
  mode,        \* "once" (--once) or "continuous"
  pc,          \* "poll": about to call run_once; "sleep": in time.sleep;
               \* "exit": the process has ended; "crashed": it ended on an
               \* exception
  faults,      \* whether the environment is faulty: the state file may
               \* fail to open for writing, the console's print may fail
  poll,        \* the last poll of the process: what it started from and left
  seen,        \* whether some poll has observed a non-zero total so far
  call,        \* the arguments of the function under test (SpecFetch)
  result       \* its result

vars == <<config, state, state_file, clock, mode, pc, faults, poll, seen, call, result>>

Modes == {"once", "continuous"}

\* The date of the polls of a behaviour.
PollDates == {[month |-> 1, year |-> 2026]}

\* An answer after which get_current_usage issues no further request.
Conclusive(response) ==
  ~response.arrived \/ response.status_code /= 200 \/ ~response.json
    \/ HasUsage(response.data)

\* The provider's answers to the requests of one poll: one answer when it
\* is conclusive, two otherwise.
\* In the polls of a behaviour the bodies carry both keys and the amounts
\* are whole cents.
WholeAmounts(data) ==
  /\ \A i \in 1..Len(Get(data.items, <<>>)) :
       IsWhole(Get(data.items[1][i].cents, 0))
  /\ \A i \in 1..Len(Get(data.usageEvents, <<>>)) :
       IsWhole(Get(data.usageEvents[1][i].priceCents, 0))

PollResponses ==
  Failures \cup {Ok(d) : d \in {x \in Snapshot : /\ x.items /= None
                                                 /\ x.usageEvents /= None
                                                 /\ WholeAmounts(x)}}

PollAnswers ==
  {<<r>> : r \in {x \in PollResponses : Conclusive(x)}}
    \cup {<<r1, r2>> : r1 \in {x \in PollResponses : ~Conclusive(x)},
                       r2 \in PollResponses}

Quiet == [console |-> "ok", desktop |-> "ok", webhook |-> "ok"]

\* The outcomes of the channels the configuration enables; the print of
\* the console channel fails only in a faulty environment.
OutcomesFor(cfg, faulty) ==
  [console : IF cfg.console /\ faulty THEN ConsoleOutcomes ELSE {"ok"},
   desktop : IF cfg.desktop THEN DesktopOutcomes ELSE {"ok"},
   webhook : IF cfg.webhook /\ cfg.webhook_url THEN WebhookOutcomes ELSE {"ok"}]

NoPoll ==
  [last |-> 0, first |-> FALSE, error |-> NoError, branch |-> "none", cur |-> None,
   dispatches |-> 0, attempts |-> <<>>, shown |-> <<>>, saves |-> 0,
   nth |-> 0, run |-> 0]

\* The total of a poll from state st is above the stored one by less than
\* the threshold.
SmallIncrease(cfg, st, body) ==
  /\ body.cur /= None
  /\ st.last_total_cents > 0
  /\ body.cur[1] > st.last_total_cents
  /\ body.cur[1] - st.last_total_cents < cfg.notification_threshold_cents

\* The record of a poll that started from state st, after the poll prev of
\* the same process; first: it observed the first non-zero total of the
\* behaviour; nth: the polls of the process so far; run: the sum of the
\* increases of the small increases in a row that end with this poll.
PollRecord(cfg, st, body, was_seen, prev) ==
  [last |-> st.last_total_cents, first |-> (~was_seen /\ Get(body.cur, 0) > 0),
   error |-> body.error, branch |-> body.branch,
   cur |-> body.cur, dispatches |-> body.dispatches,
   attempts |-> body.attempts, shown |-> body.shown, saves |-> body.saves,
   nth |-> prev.nth + 1,
   run |-> IF SmallIncrease(cfg, st, body)
           THEN prev.run + (body.cur[1] - st.last_total_cents)
           ELSE 0]

\* main() up to the first poll, with one of the configurations configs: no
\* state file yet.
Start(faulty, configs) ==
  /\ config \in configs
  /\ state_file = None
  /\ state = load_state(None)
  /\ clock = 0
  /\ mode \in Modes
  /\ pc = "poll"
  /\ faults = faulty
  /\ poll = NoPoll
  /\ seen = FALSE
  /\ call = None
  /\ result = None

\* run_once: one poll.  The channels' outcomes and the fate of the write
\* are drawn only in a poll that dispatches, respectively saves.
RunOnce ==
  /\ pc = "poll"
  /\ clock < MaxPolls
  /\ \E now \in PollDates, answers \in PollAnswers :
       LET dry == check_usage(config, state, state_file, now, clock, answers,
                              Quiet, TRUE).body
       IN  \E outcomes \in (IF dry.dispatches > 0 THEN OutcomesFor(config, faults) ELSE {Quiet}),
              written \in (IF faults /\ dry.saves > 0 THEN BOOLEAN ELSE {TRUE}) :
             LET r == check_usage(config, state, state_file, now, clock,
                                  answers, outcomes, written)
             IN  /\ state' = r.body.state
                 /\ state_file' = r.body.file
                 /\ poll' = PollRecord(config, state, r.body, seen, poll)
                 /\ seen' = (seen \/ Get(r.body.cur, 0) > 0)
                 /\ pc' = AfterRunOnce(mode, r.raised)
  /\ clock' = clock + 1
  /\ UNCHANGED <<config, mode, faults, call, result>>

\* time.sleep returns: the loop of run_continuous goes round.
Sleep ==
  /\ pc = "sleep"
  /\ pc' = "poll"
  /\ UNCHANGED <<config, state, state_file, clock, mode, faults, poll, seen, call, result>>

\* Ctrl+C during the sleep: run_continuous prints and returns.
KeyboardInterrupt ==
  /\ pc = "sleep"
  /\ pc' = "exit"
  /\ UNCHANGED <<config, state, state_file, clock, mode, faults, poll, seen, call, result>>

\* The program is started again: main() builds a new CursorMonitor.
Main ==
  /\ pc \in {"exit", "crashed"}
  /\ Loads(state_file)
  /\ state' = load_state(state_file)
  /\ mode' \in Modes
  /\ pc' = "poll"
  /\ poll' = NoPoll
  /\ UNCHANGED <<config, state_file, clock, faults, seen, call, result>>

Next == RunOnce \/ Sleep \/ KeyboardInterrupt \/ Main

\* The monitor with a file system and a console that work.
Init == Start(FALSE, Configs)

Spec == Init /\ [][Next]_vars

\* The monitor in a faulty environment.  A poll that can start starts,
\* and time.sleep returns after the interval unless it is interrupted.
\* The desktop and the webhook channel, whose failures never leave
\* send_notification, are off here.
ConsoleConfigs == {c \in Configs : ~c.desktop /\ ~c.webhook /\ ~c.webhook_url}

InitFaulty == Start(TRUE, ConsoleConfigs)

SpecFaulty ==
  InitFaulty /\ [][Next]_vars /\ WF_vars(RunOnce) /\ WF_vars(Sleep)

(* ---------------------- Ctrl+C while a poll runs ---------------------- *)

\* KeyboardInterrupt is a BaseException: the `except Exception` of line 215
\* does not catch it.
Interrupt == "KeyboardInterrupt"

\* Where the signal arrives: in requests.post (line 89), after
\* send_notification has returned (lines 193-200), in save_state between
\* open() and the end of json.dump (lines 55-56).
InterruptPoints == {"request", "sent", "save"}

\* The points the poll full, run to its end, goes through.
PointsOf(full) ==
  {"request"}
    \cup (IF full.dispatches = 1 /\ full.error /= "Exception" THEN {"sent"} ELSE {})
    \cup (IF full.saves = 1 THEN {"save"} ELSE {})

\* What the poll leaves behind when the signal arrives at the point: the
\* part of the poll before the point has run.
CutShort(st, file, at, full, point) ==
  LET checked == [st EXCEPT !.last_check = Some(at)]
  IN  IF point = "request"
      THEN Outcome(st, file, Interrupt, "fetch", [requests |-> 1],
                   None, 0, <<>>, <<>>, 0)
      ELSE IF point = "sent"
      THEN Outcome(checked, file, Interrupt, full.branch,
                   [requests |-> full.requests], full.cur, 1, full.attempts,
                   <<>>, 0)
      ELSE Outcome(full.state, Some(EmptyFile), Interrupt, full.branch,
                   [requests |-> full.requests], full.cur, full.dispatches,
                   full.attempts, full.shown, 1)

\* Lines 229-235 and 240-243: run_continuous catches the KeyboardInterrupt
\* and returns; under --once nothing catches it.
AfterInterrupt(run_mode) ==
  IF run_mode = "continuous" THEN "exit" ELSE "crashed"

\* run_once, ended by Ctrl+C.
RunOnceInterrupted ==
  /\ pc = "poll"
  /\ clock < MaxPolls
  /\ \E now \in PollDates, answers \in PollAnswers :
       LET dry == check_usage(config, state, state_file, now, clock, answers,
                              Quiet, TRUE).body
       IN  \E outcomes \in (IF dry.dispatches > 0 THEN OutcomesFor(config, faults) ELSE {Quiet}) :
             LET full == check_usage(config, state, state_file, now, clock,
                                     answers, outcomes, TRUE).body
             IN  \E point \in PointsOf(full) :
                   LET body == CutShort(state, state_file, clock, full, point)
                   IN  /\ state' = body.state
                       /\ state_file' = body.file
                       /\ poll' = PollRecord(config, state, body, seen, poll)
                       /\ seen' = seen
  /\ pc' = AfterInterrupt(mode)
  /\ clock' = clock + 1
  /\ UNCHANGED <<config, mode, faults, call, result>>

\* The program is started on a state file that holds no JSON:
\* json.load raises in __init__ (line 20).
MainFails ==
  /\ pc \in {"exit", "crashed"}
  /\ ~Loads(state_file)
  /\ pc' = "crashed"
  /\ poll' = NoPoll
  /\ UNCHANGED <<config, state, state_file, clock, mode, faults, seen, call, result>>

NextInterrupt ==
  RunOnce \/ Sleep \/ KeyboardInterrupt \/ Main \/ RunOnceInterrupted \/ MainFails

SpecInterrupt == Init /\ [][NextInterrupt]_vars

(* ------------------------- the fetch on its own ----------------------- *)

\* get_current_usage applied to a date and to the provider's two answers.
FetchCalls == [now : Dates, answers : [1..2 -> Responses]]

InitFetch ==
  /\ call \in {Some(c) : c \in FetchCalls}
  /\ result = None
  /\ config \in {c \in Configs : c.notification_threshold_cents = 1 /\ c.console
                                  /\ ~c.desktop /\ ~c.webhook /\ ~c.webhook_url}
  /\ state_file = None
  /\ state = load_state(None)
  /\ clock = 0
  /\ mode = "once"
  /\ pc = "fetch"
  /\ faults = FALSE
  /\ poll = NoPoll
  /\ seen = FALSE

Fetch ==
  /\ pc = "fetch"
  /\ result = None
  /\ result' = Some(get_current_usage(call[1].now, call[1].answers))
  /\ pc' = "fetched"
  /\ UNCHANGED <<config, state, state_file, clock, mode, faults, poll, seen, call>>

NextFetch == Fetch

SpecFetch == InitFetch /\ [][NextFetch]_vars

(* ------------- the normalisation and the context on their own -------- *)

\* Sequences over a set, of the lengths given.
Lists(set, lengths) == UNION {[1..n -> set] : n \in lengths}

\* Snapshots with up to two items and two events, for the total, and
\* with up to four events, for the context lines of a notification.
TotalSnapshots ==
  [items : {None} \cup {Some(l) : l \in Lists(Item, {0, 1, 2})},
   usageEvents : {None} \cup {Some(l) : l \in Lists(Event, {0, 1, 2})}]

ContextSnapshots ==
  [items : {None},
   usageEvents : {None} \cup {Some(l) : l \in Lists(Event, {0, 1, 2, 3, 4})}]

InitSnapshot ==
  /\ call \in {Some(d) : d \in TotalSnapshots \cup ContextSnapshots}
  /\ result = None
  /\ config \in {c \in Configs : c.notification_threshold_cents = 1 /\ c.console
                                  /\ ~c.desktop /\ ~c.webhook /\ ~c.webhook_url}
  /\ state_file = None
  /\ state = load_state(None)
  /\ clock = 0
  /\ mode = "once"
  /\ pc = "snapshot"
  /\ faults = FALSE
  /\ poll = NoPoll
  /\ seen = FALSE

\* Lines 158-171 applied to the snapshot.
NormalizeSnapshot ==
  /\ pc = "snapshot"
  /\ result' = Some([error |-> Normalize(call[1]).error,
                     total |-> Normalize(call[1]).total, shown |-> <<>>])
  /\ pc' = "normalized"
  /\ UNCHANGED <<config, state, state_file, clock, mode, faults, poll, seen, call>>

\* Lines 194-200 applied to the snapshot.
ShowSnapshot ==
  /\ pc = "snapshot"
  /\ result' = Some([error |-> ShowRecent(call[1]).error,
                     total |-> 0, shown |-> ShowRecent(call[1]).shown])
  /\ pc' = "shown"
  /\ UNCHANGED <<config, state, state_file, clock, mode, faults, poll, seen, call>>

NextSnapshot == NormalizeSnapshot \/ ShowSnapshot

SpecSnapshot == InitSnapshot /\ [][NextSnapshot]_vars

(* ------------------------------- claims ------------------------------- *)

\* A step that is a poll: only run_once moves the clock.
IsPoll == clock' = clock + 1

\* The last poll of the process computed a total.
Observed == poll.cur /= None

Cur == poll.cur[1]

Increase == Cur - poll.last

Threshold == config.notification_threshold_cents

\* The baseline is cur, in memory and in the state file.
BaselineIsCur ==
  /\ state.last_total_cents = Cur
  /\ state_file /= None
  /\ state_file[1].last_total_cents = Cur

NothingDispatched == poll.dispatches = 0 /\ poll.attempts = <<>>

\* The channels a dispatch goes to, in the order of send_notification.
EnabledChannels ==
  (IF config.console THEN <<"console">> ELSE <<>>)
    \o (IF config.desktop THEN <<"desktop">> ELSE <<>>)
    \o (IF config.webhook /\ config.webhook_url THEN <<"webhook">> ELSE <<>>)

AttemptedChannels == [i \in 1..Len(poll.attempts) |-> poll.attempts[i].channel]

\* C1: a poll whose fetch or normalisation raises catches the error,
\* dispatches nothing, saves nothing, and leaves the state in memory and the
\* state file exactly as they were before the poll.
C1_FailedPollLeavesState ==
  [][(IsPoll /\ poll'.cur = None)
       => /\ poll'.error /= NoError
          /\ pc' /= "crashed"
          /\ poll'.dispatches = 0 /\ poll'.attempts = <<>> /\ poll'.saves = 0
          /\ state' = state
          /\ state_file' = state_file]_vars

C1_Witness ==
  /\ poll.branch = "fetch" /\ poll.error = AuthError
  /\ state.last_total_cents > 0 /\ state_file = Some(state)

\* C2: from the initial state, the poll that observes the first non-zero
\* total stores it as the baseline, in memory and in the file, and
\* dispatches nothing, whatever the threshold and the total.
C2_FirstTotalIsBaseline ==
  poll.first => (poll.last = 0 /\ BaselineIsCur /\ NothingDispatched)

C2_Witness ==
  /\ poll.first /\ Cur = MaxCents /\ Threshold = 1
  /\ config.console /\ state_file = Some(state)

\* C3 (as claimed): in the tracking state a poll with cur > last and
\* cur - last >= threshold calls the dispatcher once, reaches each enabled
\* channel once and no other, and ends with the baseline cur in memory and
\* in the file.
C3_AtThresholdNotifiesAndUpdates ==
  (Observed /\ poll.last /= 0 /\ Cur > poll.last /\ Increase >= Threshold)
    => /\ poll.dispatches = 1
       /\ AttemptedChannels = EnabledChannels
       /\ BaselineIsCur

\* C4: in the tracking state a poll with cur > last and cur - last <
\* threshold dispatches nothing and sets the baseline to cur, in memory and
\* in the file.
C4_BelowThresholdUpdatesQuietly ==
  (Observed /\ poll.last /= 0 /\ Cur > poll.last /\ Increase < Threshold)
    => (NothingDispatched /\ BaselineIsCur)

C4_Witness ==
  /\ Observed /\ poll.last = 1 /\ Cur = 2 /\ Threshold = 2
  /\ poll.saves = 1 /\ state_file = Some(state)

\* C5: a poll with cur < last sets the baseline to cur, in memory and in
\* the file, and dispatches nothing.
C5_DecreaseResetsBaseline ==
  (Observed /\ Cur < poll.last) => (BaselineIsCur /\ NothingDispatched)

C5_Witness ==
  /\ Observed /\ poll.last = MaxCents /\ Cur = 0 /\ Threshold = 1
  /\ state_file = Some(state)

\* C6 (as claimed): a poll with cur = last dispatches nothing, does not
\* write the file, and leaves last_total_cents and last_check as they were.
C6_SameTotalChangesNothing ==
  [][(IsPoll /\ poll'.cur = Some(state.last_total_cents))
       => /\ poll'.dispatches = 0 /\ poll'.attempts = <<>> /\ poll'.saves = 0
          /\ state_file' = state_file
          /\ state' = state]_vars

\* C6 (amended): a poll with cur = last dispatches nothing, does not write
\* the file, and leaves last_total_cents as it was, in memory and in the
\* file; in memory last_check becomes the time of the poll.
C6_SameTotalKeepsBaseline ==
  [][(IsPoll /\ poll'.cur = Some(state.last_total_cents))
       => /\ poll'.error = NoError
          /\ poll'.dispatches = 0 /\ poll'.attempts = <<>> /\ poll'.saves = 0
          /\ state_file' = state_file
          /\ state'.last_total_cents = state.last_total_cents
          /\ state'.last_check = Some(clock)]_vars

C6_Witness ==
  /\ Observed /\ Cur > 0 /\ poll.last = Cur /\ poll.saves = 0
  /\ state_file /= None
  /\ state_file[1].last_total_cents = state.last_total_cents
  /\ state_file[1].last_check /= state.last_check

\* The call of get_current_usage under test and what it returned.
Fetched == result /= None

Now == call[1].now

First == call[1].answers[1]

Second == call[1].answers[2]

Returned == result[1]

\* The current calendar month and the one before it.
CurrentPeriod == [month |-> Now.month, year |-> Now.year]

PreviousPeriod ==
  IF Now.month = 1 THEN [month |-> 12, year |-> Now.year - 1]
  ELSE [month |-> Now.month - 1, year |-> Now.year]

\* An answer that is a snapshot: status 200 and a body that parses.
IsSnapshot(answer) == answer.arrived /\ answer.status_code = 200 /\ answer.json

\* A snapshot with items or with at least one usage event.
NonEmpty(data) ==
  \/ data.items /= None /\ Len(data.items[1]) > 0
  \/ data.usageEvents /= None /\ Len(data.usageEvents[1]) > 0

\* C7: the current month is queried first; the previous month (December of
\* the year before, in January) is queried next exactly when the current
\* month's snapshot has neither items nor events; the first snapshot that
\* has some is returned, and the explicit empty snapshot, without an error,
\* when both have none.
C7_FetchOrderAndFallback ==
  Fetched =>
    /\ Returned.requests \in {<<CurrentPeriod>>, <<CurrentPeriod, PreviousPeriod>>}
    /\ IsSnapshot(First) =>
         /\ Len(Returned.requests) = 2 <=> ~NonEmpty(First.data)
         /\ NonEmpty(First.data)
              => (Returned.error = NoError /\ Returned.data = First.data)
         /\ (~NonEmpty(First.data) /\ IsSnapshot(Second))
              => /\ Returned.error = NoError
                 /\ Returned.data = IF NonEmpty(Second.data) THEN Second.data
                                    ELSE [items |-> Some(<<>>), usageEvents |-> Some(<<>>)]

C7_Witness ==
  /\ Fetched /\ Now.month = 1
  /\ IsSnapshot(First) /\ First.data.items = None /\ First.data.usageEvents = Some(<<>>)
  /\ IsSnapshot(Second) /\ ~NonEmpty(Second.data)
  /\ Returned.requests[2] = [month |-> 12, year |-> Now.year - 1]
  /\ Returned.error = NoError

\* The error a failed answer is reported as.
ErrorOf(answer) ==
  IF ~answer.arrived THEN "Network error"
  ELSE IF answer.status_code = 401 THEN "Authentication failed"
  ELSE IF answer.status_code /= 200 THEN "API request failed"
  ELSE "Invalid JSON response"

\* C8: a failed answer ends get_current_usage at once with the error of its
\* kind (401: authentication, another status: request, no answer: network,
\* a body that does not parse: parse), no snapshot is returned and no
\* further request is issued; the four errors differ; a poll issues at
\* most two requests, never the same one twice.
C8_FailureEndsFetch ==
  Fetched =>
    /\ Len(Returned.requests) \in {1, 2}
    /\ Len(Returned.requests) = 2 => Returned.requests[1] /= Returned.requests[2]
    /\ ~IsSnapshot(First)
         => /\ Returned.error = ErrorOf(First)
            /\ Len(Returned.requests) = 1
            /\ Returned.data /= [items |-> Some(<<>>), usageEvents |-> Some(<<>>)]
    /\ (IsSnapshot(First) /\ ~NonEmpty(First.data) /\ ~IsSnapshot(Second))
         => /\ Returned.error = ErrorOf(Second)
            /\ Returned.data /= [items |-> Some(<<>>), usageEvents |-> Some(<<>>)]
    /\ Returned.error /= NoError
         => \/ ~IsSnapshot(First)
            \/ ~IsSnapshot(Second) /\ Len(Returned.requests) = 2
    /\ Cardinality({ErrorOf(a) : a \in Failures}) = 4

C8_Witness ==
  /\ Fetched /\ Len(Returned.requests) = 2
  /\ Second.arrived /\ Second.status_code = 200 /\ ~Second.json
  /\ Returned.error = ParseError

\* A poll of the continuous mode has failed and the loop is in its sleep.
FailedPollSleeps == pc = "sleep" /\ poll.error /= NoError

\* C9: in continuous mode no error of a poll leaves the poll or stops the
\* loop: after a failed poll the monitor sleeps and then, unless it is
\* interrupted, starts the next poll.
C9_FailedPollNeverStopsLoop ==
  /\ [](pc /= "crashed")
  /\ [][(IsPoll /\ poll'.error /= NoError /\ mode = "continuous") => pc' = "sleep"]_vars
  /\ (FailedPollSleeps ~> (pc = "poll" \/ pc = "exit"))

C9_Witness == FailedPollSleeps /\ poll.error = WriteError /\ poll.dispatches = 1

\* A dispatch in which the desktop or the webhook channel failed.
ChannelFailed ==
  \E i \in 1..Len(poll.attempts) :
    poll.attempts[i].channel /= "console" /\ poll.attempts[i].outcome /= "ok"

\* C10 (as claimed): when a channel fails in a dispatch, every enabled
\* channel is still attempted, in the order console, desktop, webhook, the
\* poll is not aborted, and the baseline is cur afterwards, in memory and
\* in the file.
C10_ChannelFailureIsIsolated ==
  (poll.dispatches = 1 /\ ChannelFailed)
    => /\ AttemptedChannels = EnabledChannels
       /\ poll.error = NoError
       /\ BaselineIsCur

\* The part of C10 that is about the channels alone: a failed channel stops
\* no other channel.
ChannelsAllAttempted ==
  (poll.dispatches = 1 /\ ChannelFailed) => AttemptedChannels = EnabledChannels

\* A step that starts the program again.
StartsProcess == pc \in {"exit", "crashed"} /\ pc' = "poll"

\* C11: under --once the process makes exactly one poll and then ends,
\* whether the poll succeeded or failed; in the continuous mode a poll is
\* followed by a sleep and a sleep by a poll, the process never ends by
\* itself, and it ends, cleanly, only by an interrupt.
C11_ModeDecidesPolls ==
  /\ [](mode = "once" => /\ pc \in {"poll", "exit"}
                          /\ poll.nth = (IF pc = "exit" THEN 1 ELSE 0))
  /\ [](mode = "continuous" => /\ pc \in {"poll", "sleep", "exit"}
                                /\ (pc = "sleep" => poll.nth > 0))
  /\ [][/\ (IsPoll => pc' = (IF mode = "once" THEN "exit" ELSE "sleep"))
        /\ (pc = "sleep" => pc' \in {"poll", "exit"} /\ ~IsPoll)
        /\ (mode = "continuous" /\ pc' = "exit" => pc = "sleep")
        /\ (pc' = "poll" /\ ~StartsProcess => pc = "sleep")]_vars

\* The loop went on after a poll, made a second one, which failed, slept and
\* was interrupted.
C11_Witness ==
  /\ mode = "continuous" /\ pc = "exit" /\ poll.nth = 2
  /\ poll.error = RequestError /\ state.last_total_cents > 0

\* A failed poll under --once: the process has ended.
OnceFailedAndEnded ==
  mode = "once" /\ pc = "exit" /\ poll.nth = 1 /\ poll.error = RequestError

\* The snapshot of the call, its lists (an absent key: the empty list).
Data == call[1]

Items == Get(Data.items, <<>>)

Events == Get(Data.usageEvents, <<>>)

Normalized == pc = "normalized"

\* The amount of a whole number of cents is the number, no other amount is
\* one.
IsAmountOf(total, amount) == Cents(total) = amount

TotalOfEvents ==
  /\ Normalized /\ Items = <<>> /\ Len(Events) = 2
  /\ Events[1].priceCents = Some(1) /\ Events[2].priceCents = Some(Cents(1))
  /\ Returned.total = 1

\* The total the claim asks for, every absent amount counting 0.
TotalWithDefaults ==
  IF Items /= <<>> THEN int(Get(Items[1].cents, 0))
  ELSE IF Events /= <<>> THEN int(SumPrices(Events))
  ELSE 0

\* C13 (as claimed): the normalisation never fails because an amount is
\* absent: a first item without cents, or events without priceCents, count
\* 0, a total is produced and the poll goes on to the comparison.
C13_AbsentAmountCountsZero ==
  Normalized => (Returned.error = NoError /\ Returned.total = TotalWithDefaults)

\* What holds: an absent priceCents counts 0 and never fails the
\* normalisation.
AbsentPriceCountsZero ==
  (Normalized /\ Items = <<>>)
    => (Returned.error = NoError /\ Returned.total = TotalWithDefaults)

AbsentPriceSeen ==
  /\ Normalized /\ Items = <<>> /\ Len(Events) = 2
  /\ Events[1].priceCents = None /\ Events[2].priceCents = Some(Cents(1))
  /\ Returned.total = 1

\* The first item has no cents: the normalisation raises KeyError.
AbsentCentsRaises ==
  (Normalized /\ Items /= <<>> /\ Items[1].cents = None)
    => Returned.error = KeyError

\* C14 (as claimed): in the tracking state every poll whose fetch succeeded
\* and that observed cur > last ends with cur as the baseline in memory and
\* in the file, whatever the threshold decided and whatever the events
\* hold; so a poll that dispatched for the total cur is never followed by a
\* second notification for the same total.
C14_IncreaseAlwaysPersists ==
  [][IsPoll =>
       /\ (/\ poll'.cur /= None
           /\ state.last_total_cents > 0
           /\ poll'.cur[1] > state.last_total_cents)
            => /\ state'.last_total_cents = poll'.cur[1]
               /\ state_file' /= None
               /\ state_file'[1].last_total_cents = poll'.cur[1]
       /\ (poll.dispatches > 0 /\ poll'.cur = poll.cur)
            => poll'.dispatches = 0]_vars

\* What holds: the increase is persisted by every poll that no exception
\* ended.
IncreasePersistsUnlessRaised ==
  (Observed /\ poll.error = NoError /\ poll.last > 0 /\ Cur > poll.last)
    => BaselineIsCur

\* A poll notified and the KeyError of line 197 ended it: the baseline is
\* the old one.
NotifiedAndNotPersisted ==
  /\ poll.dispatches = 1 /\ poll.error = KeyError
  /\ state.last_total_cents = poll.last /\ Cur > poll.last
  /\ state_file /= None /\ state_file[1].last_total_cents = poll.last

\* The poll of the step observes a total above the stored one by the
\* threshold or more.
ObservesLargeIncrease ==
  /\ IsPoll
  /\ poll'.cur /= None
  /\ poll'.cur[1] > state.last_total_cents
  /\ poll'.cur[1] - state.last_total_cents >= config.notification_threshold_cents

\* C15 (as claimed): only before the first non-zero total is a notification
\* held back: once a poll has observed a non-zero total, every later poll
\* with cur > last and cur - last >= threshold dispatches, also when a
\* rollover has put the stored total back to 0.
C15_SuppressionOnlyBeforeFirstTotal ==
  [][(seen /\ ObservesLargeIncrease) => poll'.dispatches = 1]_vars

\* What holds: such a poll dispatches when the stored total is not 0.
LargeIncreaseOverNonZeroDispatches ==
  [][(state.last_total_cents > 0 /\ ObservesLargeIncrease)
       => poll'.dispatches = 1]_vars

\* After a rollover to 0 a total of the threshold or more was stored
\* without a notification.
SuppressedAfterRollover ==
  /\ poll.nth = 3 /\ ~poll.first /\ poll.last = 0 /\ poll.branch = "baseline"
  /\ Cur >= Threshold /\ poll.dispatches = 0 /\ BaselineIsCur

\* C16 (as claimed): an interrupt ends the loop only between two polls, a
\* poll that has started runs to its end; after every poll the state file
\* holds the record it held before the poll or the fully updated record
\* (the total of the poll with the time of the poll), and a poll writes the
\* file at most once.
C16_PollsAreNeverCutShort ==
  [][/\ (mode = "continuous" /\ pc' = "exit" /\ pc /= "exit") => pc = "sleep"
     /\ IsPoll => /\ poll'.error /= Interrupt
                  /\ poll'.saves <= 1
                  /\ \/ state_file' = state_file
                     \/ /\ poll'.cur /= None
                        /\ state_file' = Some([last_total_cents |-> poll'.cur[1],
                                                last_check |-> Some(clock)])]_vars

\* Ctrl+C after the notification: the loop has ended, the notified total
\* is not the baseline.
InterruptedAfterDispatch ==
  /\ pc = "exit" /\ mode = "continuous" /\ poll.error = Interrupt
  /\ poll.dispatches = 1 /\ state.last_total_cents = poll.last
  /\ state_file /= None /\ state_file[1].last_total_cents = poll.last

\* Ctrl+C in save_state: the file holds no record, the next start fails.
InterruptedInSave ==
  /\ pc = "crashed" /\ poll = NoPoll /\ state_file = Some(EmptyFile)

\* What holds when no signal arrives while a poll runs.
UninterruptedPollsWriteWholeRecords ==
  [][/\ (mode = "continuous" /\ pc' = "exit" /\ pc /= "exit") => pc = "sleep"
     /\ IsPoll => /\ poll'.saves <= 1
                  /\ \/ state_file' = state_file
                     \/ /\ poll'.cur /= None
                        /\ state_file' = Some([last_total_cents |-> poll'.cur[1],
                                                last_check |-> Some(clock)])]_vars

Shown == pc = "shown"

HasPrice(event) == Get(event.priceCents, 0) > 0

\* The events with a price, in the order of the provider, and the first
\* three of them.
PricedEvents == SelectSeq(Events, HasPrice)

FirstThreePriced ==
  SubSeq(PricedEvents, 1, IF Len(PricedEvents) < 3 THEN Len(PricedEvents) ELSE 3)

\* C17 (as claimed): the events shown with a notification are exactly the
\* first min(3, k) of the k events with a price above zero, in the
\* provider's order; an event with a zero or missing price is never shown.
C17_FirstThreePricedAreShown ==
  Shown => Returned.shown = FirstThreePriced

\* What holds: the events shown are the first of FirstThreePriced, all of
\* them unless the KeyError of a missing timestamp ended the printing.
ShownIsPrefixOfFirstThreePriced ==
  Shown => /\ Len(Returned.shown) <= Len(FirstThreePriced)
           /\ Returned.shown = SubSeq(FirstThreePriced, 1, Len(Returned.shown))
           /\ (Returned.error = NoError => Returned.shown = FirstThreePriced)
           /\ (Returned.error /= NoError
                 => /\ Returned.error = KeyError
                    /\ FirstThreePriced[Len(Returned.shown) + 1].timestamp = None)

\* Four priced events after one without a price: the three first priced
\* ones are shown.
FourPricedThreeShown ==
  /\ Shown /\ Len(Events) = 4 /\ Len(PricedEvents) = 3 /\ ~HasPrice(Events[2])
  /\ Returned.shown = <<Events[1], Events[3], Events[4]>>
  /\ Events[1].priceCents /= Events[3].priceCents

OnlyThreeShown ==
  /\ Shown /\ Len(PricedEvents) = 4 /\ Len(Returned.shown) = 3

\* A poll that dispatched nothing showed no event.
NoDispatchNoEvents == poll.dispatches = 0 => poll.shown = <<>>

\* C18: a notification is dispatched, on any channel, only by a poll whose
\* fetch and normalisation succeeded, that started from a non-zero
\* baseline last and observed cur > last with cur - last >= threshold:
\* never by a failed poll, by the first-run poll, or by a poll with
\* cur = last or cur < last.
C18_NoFalseAlarm ==
  (poll.dispatches > 0 \/ poll.attempts /= <<>>)
    => /\ Observed
       /\ poll.last > 0
       /\ Cur > poll.last
       /\ Increase >= Threshold
       /\ poll.dispatches = 1

C18_Witness ==
  /\ poll.dispatches = 1 /\ Len(poll.attempts) = 3
  /\ Threshold = MaxThreshold /\ Increase = Threshold

\* C19: the threshold is applied to the increase over the baseline of the
\* poll before, never to the sum: in a row of polls each above the one
\* before by less than the threshold no poll dispatches, however large the
\* sum of the increases, and each of them moves the baseline to its total.
C19_ThresholdIsPerPoll ==
  poll.run > 0 => (NothingDispatched /\ BaselineIsCur /\ poll.error = NoError)

\* Two increases in a row, each below the threshold, that add up to it.
C19_Witness ==
  /\ poll.run >= Threshold /\ poll.run > Increase
  /\ poll.dispatches = 0 /\ BaselineIsCur

\* C20: as long as the writes succeed, after every poll, failed or not,
\* the last_total_cents in memory is that of the state file, no file
\* counting 0; a poll that assigns last_total_cents calls save_state, and the
\* program started again resumes with the baseline the process had.
C20_FileMirrorsBaseline ==
  /\ [](state.last_total_cents = load_state(state_file).last_total_cents)
  /\ [][/\ (IsPoll /\ state'.last_total_cents /= state.last_total_cents)
             => poll'.saves = 1
        /\ StartsProcess => state'.last_total_cents = state.last_total_cents]_vars

\* The program was started again after a poll that the KeyError of line
\* 197 ended: memory and file hold the same baseline, not the same record.
C20_Witness ==
  /\ poll.error = KeyError /\ poll.dispatches = 1 /\ poll.nth = 1 /\ clock = 3
  /\ state.last_total_cents > 0
  /\ state_file /= None /\ state_file[1].last_check /= state.last_check

====
